---- MODULE Spec2Model ----
(***************************************************************************)
(* Model of lap_doer.car_models: GenericChassis, GenericCarGeometry,       *)
(* GenericTyreModel (with the functions of tyre_example),                  *)
(* GenericAeroModel (with the functions of aero_example) and CarModel.     *)
(*                                                                         *)
(* The classes are pure query objects.  The state is the object under      *)
(* test (obj) and the last call made on it (op, args, ret).  Python floats *)
(* are modelled as exact rationals [tag |-> "float", n, d] in lowest terms *)
(* with d > 0; math.sqrt rounds down to the grid of the operand's          *)
(* denominator (exact on perfect squares); float division by zero raises   *)
(* ZeroDivisionError as in Python.                                         *)
(***************************************************************************)
EXTENDS Integers, Sequences, FiniteSets, TLC

VARIABLES obj, op, args, ret

vars == <<obj, op, args, ret>>

(* ------------------------------ bounds --------------------------------- *)
\* lengths and weight distributions given to constructors range over
\* {0, 1/2, ..., MaxParam/2}
MaxParam == 2
\* call arguments range over {-MaxArg/2, ..., 0, ..., MaxArg/2}
MaxArg == 1
\* tyre forces, loads and slips range over {-MaxLoad/2, ..., MaxLoad/2}
MaxLoad == 4

(* --------------------------- float arithmetic -------------------------- *)
RECURSIVE GCD(_, _)
GCD(a, b) == IF b = 0 THEN a ELSE GCD(b, a % b)

Abs(i) == IF i < 0 THEN -i ELSE i

Float(n, d) ==
    LET s == IF d < 0 THEN -1 ELSE 1
        g == GCD(Abs(n), Abs(d))
    IN  [tag |-> "float", n |-> (s * n) \div g, d |-> (s * d) \div g]

Zero == Float(0, 1)
One == Float(1, 1)

FAdd(x, y) == Float(x.n * y.d + y.n * x.d, x.d * y.d)
FNeg(x) == Float(-x.n, x.d)
FSub(x, y) == Float(x.n * y.d - y.n * x.d, x.d * y.d)
FMul(x, y) == Float(x.n * y.n, x.d * y.d)
\* only applied to y # 0; callers raise ZeroDivisionError otherwise
FDiv(x, y) == Float(x.n * y.d, x.d * y.n)
FLe(x, y) == x.n * y.d <= y.n * x.d
FLt(x, y) == x.n * y.d < y.n * x.d
FAbs(x) == Float(Abs(x.n), x.d)
FMax(x, y) == IF FLt(x, y) THEN y ELSE x

ISqrt(i) == CHOOSE k \in 0..i : k * k <= i /\ i < (k + 1) * (k + 1)
\* math.sqrt on x >= 0: sqrt(n/d) = sqrt(n*d)/d, rounded down to the grid 1/d
FSqrt(x) == Float(ISqrt(x.n * x.d), x.d)

None == [tag |-> "None"]
Raise(e) == [tag |-> "raise", exc |-> e]
IsFloat(v) == v.tag = "float"

Params == {Float(k, 2) : k \in 0..MaxParam}
Args == {Float(k, 2) : k \in (-MaxArg)..MaxArg}
Loads == {Float(k, 2) : k \in (-MaxLoad)..MaxLoad}
\* COG heights: on the ground, and the 0.4 m of geometry_example
CogHeights == {Zero, Float(2, 5)}
\* masses: none, and the 1200 kg of geometry_example
Masses == {Zero, Float(1200, 1)}

(* ----------------------------- GenericChassis -------------------------- *)
GenericChassis(wheelbase, front_track_width, back_track_width, cog_height, front_weight_dist, mass) ==
    [tag |-> "GenericChassis",
     wheelbase |-> wheelbase,
     front_track_width |-> front_track_width,
     back_track_width |-> back_track_width,
     cog_height |-> cog_height,
     front_weight_dist |-> front_weight_dist,
     mass |-> mass]

TransferDict(front, rear) ==
    [tag |-> "dict", front_transfer_N |-> front, rear_transfer_N |-> rear]

\* static_lateral_load_transfer with the front track width used for both axles
Chassis_static_lateral_load_transfer_OneTrack(self, total_mass, lateral_accel) ==
    IF self.front_track_width = Zero \/ self.back_track_width = Zero
    THEN Raise("ZeroDivisionError")
    ELSE LET front_load_transfer_total ==
                 FDiv(FMul(FMul(total_mass, lateral_accel), self.cog_height), self.front_track_width)
             front_transfer == FMul(front_load_transfer_total, self.front_weight_dist)
             rear_transfer == FMul(front_load_transfer_total, FSub(One, self.front_weight_dist))
         IN  TransferDict(front_transfer, rear_transfer)

Chassis_static_lateral_load_transfer(self, total_mass, lateral_accel) ==
    IF self.front_track_width = Zero \/ self.back_track_width = Zero
    THEN Raise("ZeroDivisionError")
    ELSE LET front_load_transfer_total ==
                 FDiv(FMul(FMul(total_mass, lateral_accel), self.cog_height), self.front_track_width)
             back_load_transfer_total ==
                 FDiv(FMul(FMul(total_mass, lateral_accel), self.cog_height), self.back_track_width)
             front_transfer == FMul(front_load_transfer_total, self.front_weight_dist)
             rear_transfer == FMul(back_load_transfer_total, FSub(One, self.front_weight_dist))
         IN  TransferDict(front_transfer, rear_transfer)

\* static_longitudinal_load_transfer with the negation of the front transfer lost
Chassis_static_longitudinal_load_transfer_NoNeg(self, total_mass, longitudinal_accel) ==
    IF self.wheelbase = Zero
    THEN Raise("ZeroDivisionError")
    ELSE LET load_transfer ==
                 FDiv(FMul(FMul(total_mass, longitudinal_accel), self.cog_height), self.wheelbase)
         IN  TransferDict(load_transfer, load_transfer)

Chassis_static_longitudinal_load_transfer(self, total_mass, longitudinal_accel) ==
    IF self.wheelbase = Zero
    THEN Raise("ZeroDivisionError")
    ELSE LET load_transfer ==
                 FDiv(FMul(FMul(total_mass, longitudinal_accel), self.cog_height), self.wheelbase)
             front_transfer == FNeg(load_transfer)
             rear_transfer == load_transfer
         IN  TransferDict(front_transfer, rear_transfer)

(* --------------------------- GenericCarGeometry ------------------------ *)
GenericCarGeometry(wheelbase, track_width, cog_height, front_weight_dist) ==
    [tag |-> "GenericCarGeometry",
     wheelbase |-> wheelbase,
     track_width |-> track_width,
     cog_height |-> cog_height,
     front_weight_dist |-> front_weight_dist]

Geometry_static_lateral_load_transfer(self, total_mass, lateral_accel) ==
    IF self.track_width = Zero
    THEN Raise("ZeroDivisionError")
    ELSE LET load_transfer_total ==
                 FDiv(FMul(FMul(total_mass, lateral_accel), self.cog_height), self.track_width)
             front_transfer == FMul(load_transfer_total, self.front_weight_dist)
             rear_transfer == FMul(load_transfer_total, FSub(One, self.front_weight_dist))
         IN  TransferDict(front_transfer, rear_transfer)

Geometry_static_longitudinal_load_transfer(self, total_mass, longitudinal_accel) ==
    IF self.wheelbase = Zero
    THEN Raise("ZeroDivisionError")
    ELSE LET load_transfer ==
                 FDiv(FMul(FMul(total_mass, longitudinal_accel), self.cog_height), self.wheelbase)
             front_transfer == load_transfer
             rear_transfer == FNeg(load_transfer)
         IN  TransferDict(front_transfer, rear_transfer)

(* ---------------------- GenericTyreModel, tyre_example ----------------- *)
\* tyre_example.lat_func
lat_func(slip_angle, normal_load) ==
    FMul(FMul(Float(10, 1), normal_load), slip_angle)

\* tyre_example.long_func
long_func(slip_ratio, normal_load) ==
    FMul(FMul(Float(12, 1), normal_load), slip_ratio)

\* a coupling that falls off linearly and has no guard for |given_force| > normal_load
ellipse_coupling_Linear(given_force, normal_load) ==
    FSub(normal_load, FAbs(given_force))

\* tyre_example.ellipse_coupling
ellipse_coupling(given_force, normal_load) ==
    IF FLe(FAbs(given_force), normal_load)
    THEN FMax(Zero, FSqrt(FSub(FMul(normal_load, normal_load), FMul(given_force, given_force))))
    ELSE Zero

\* call of a function object held by a model, by its name
ApplyFunc(f, a, b) ==
    CASE f = "lat_func" -> lat_func(a, b)
      [] f = "long_func" -> long_func(a, b)
      [] f = "ellipse_coupling" -> ellipse_coupling(a, b)

GenericTyreModel(lateral_force_func, longitudinal_force_func, coupling_func) ==
    [tag |-> "GenericTyreModel",
     lateral_force_func |-> lateral_force_func,
     longitudinal_force_func |-> longitudinal_force_func,
     coupling_func |-> coupling_func]

Tyre_lateral_force(self, slip_angle, normal_load) ==
    ApplyFunc(self.lateral_force_func, slip_angle, normal_load)

Tyre_longitudinal_force(self, slip_ratio, normal_load) ==
    ApplyFunc(self.longitudinal_force_func, slip_ratio, normal_load)

Tyre_force_coupling(self, given_force, normal_load) ==
    ApplyFunc(self.coupling_func, given_force, normal_load)

\* the tyre built by tyre_example
ExampleTyre == GenericTyreModel("lat_func", "long_func", "ellipse_coupling")

(* ---------------------- GenericAeroModel, aero_example ----------------- *)
\* aero_example.negative_lift_func with cla = 4.3
negative_lift_func(velocity, rho) ==
    FMul(FMul(FMul(Float(1, 2), rho), Float(43, 10)), FMul(velocity, velocity))

\* aero_example.drag_func with cda = 1.7
drag_func(velocity, rho) ==
    FMul(FMul(FMul(Float(1, 2), rho), Float(17, 10)), FMul(velocity, velocity))

ApplyAeroFunc(f, v, rho) ==
    CASE f = "negative_lift_func" -> negative_lift_func(v, rho)
      [] f = "drag_func" -> drag_func(v, rho)

GenericAeroModel(downforce_func, drag_f) ==
    [tag |-> "GenericAeroModel", downforce_func |-> downforce_func, drag_func |-> drag_f]

\* default air density rho = 1.25
DefaultRho == Float(5, 4)

Aero_downforce(self, speed) == ApplyAeroFunc(self.downforce_func, speed, DefaultRho)

Aero_drag(self, speed) == ApplyAeroFunc(self.drag_func, speed, DefaultRho)

\* the aero model built by aero_example
ExampleAero == GenericAeroModel("negative_lift_func", "drag_func")

(* -------------------------------- CarModel ----------------------------- *)
CarModel(mass, tyre_model, aero_model, geometry) ==
    [tag |-> "CarModel",
     mass |-> mass,
     tyre_model |-> tyre_model,
     aero_model |-> aero_model,
     geometry |-> geometry]

\* required_lateral_force with the speed factor lost
Car_required_lateral_force_NoSpeed(self, speed, curvature) ==
    FMul(self.mass, curvature)

\* required_lateral_force with speed*2 in place of speed**2
Car_required_lateral_force_Doubled(self, speed, curvature) ==
    FMul(FMul(self.mass, FMul(speed, Float(2, 1))), curvature)

Car_required_lateral_force(self, speed, curvature) ==
    FMul(FMul(self.mass, FMul(speed, speed)), curvature)

\* math.atan2 is exact only on the positive x axis; any other angle is kept symbolic
Car_body_slip_angle(self, lateral_velocity, longitudinal_velocity) ==
    IF lateral_velocity = Zero /\ FLe(Zero, longitudinal_velocity)
    THEN Zero
    ELSE [tag |-> "atan2", y |-> lateral_velocity, x |-> longitudinal_velocity]

Car_front_body_slip_angle(self, body_slip, curvature) ==
    LET a == FMul(self.geometry.wheelbase, self.geometry.front_weight_dist)
    IN  FAdd(body_slip, FMul(a, curvature))

Car_back_body_slip_angle(self, body_slip, curvature) ==
    LET b == FMul(self.geometry.wheelbase, FSub(One, self.geometry.front_weight_dist))
    IN  FSub(body_slip, FMul(b, curvature))

Car_front_slip_angle(self, front_body_slip, steering_angle) ==
    FSub(front_body_slip, steering_angle)

Car_back_slip_angle(self, back_body_slip) == back_body_slip

Car_steering_angle(self, front_slip, curvature, back_slip) ==
    FSub(FAdd(front_slip, FMul(curvature, self.geometry.wheelbase)), back_slip)

\* the body of the method is "...": it returns None for every curvature
Car_max_speed_over_curvature(self, curvature) == None

\* the read-only properties of CarModel
CarProperties == {"mass", "tyre_model", "aero_model", "geometry"}

\* values a caller may try to assign: masses, the example sub-models and the
\* geometry of geometry_example
SwapValues ==
    Masses \cup {ExampleTyre, ExampleAero,
                 GenericCarGeometry(Float(5, 2), Float(6, 5), Float(2, 5), Float(3, 10))}

\* CarModel as if its properties had setters
Car_setattr_Setter(self, name, value) == [self EXCEPT ![name] = value]

\* car.<property> = value: the properties have no setter, so the assignment
\* raises AttributeError and the car is as before
Car_setattr(self, name, value) == self

\* geometries handed to CarModel: track width and COG height of geometry_example
CarGeometries ==
    {GenericCarGeometry(w, Float(6, 5), Float(2, 5), f) : w \in Params, f \in Params}

(* ------------------------------- actions ------------------------------- *)
NoArgs == [tag |-> "args"]

Init ==
    /\ obj = None
    /\ op = "none"
    /\ args = NoArgs
    /\ ret = None

\* a behaviour follows one object from its construction through its queries
Construct(o, name, a) ==
    /\ obj' = o
    /\ op' = name
    /\ args' = a
    /\ ret' = None

Call(name, a, r) ==
    /\ op' = name
    /\ args' = a
    /\ ret' = r
    /\ UNCHANGED obj

NewGenericChassis ==
    /\ obj = None
    /\ \E w \in Params, ft \in Params, bt \in Params, h \in CogHeights, f \in Params, m \in Masses :
        Construct(GenericChassis(w, ft, bt, h, f, m), "GenericChassis.__init__",
                  [wheelbase |-> w, front_track_width |-> ft, back_track_width |-> bt,
                   cog_height |-> h, front_weight_dist |-> f, mass |-> m])

NewGenericCarGeometry ==
    /\ obj = None
    /\ \E w \in Params, t \in Params, h \in CogHeights, f \in Params :
        Construct(GenericCarGeometry(w, t, h, f), "GenericCarGeometry.__init__",
                  [wheelbase |-> w, track_width |-> t, cog_height |-> h, front_weight_dist |-> f])

ChassisStaticLateral ==
    /\ obj.tag = "GenericChassis"
    /\ \E total_mass \in Masses, lateral_accel \in Args :
        Call("GenericChassis.static_lateral_load_transfer",
             [total_mass |-> total_mass, lateral_accel |-> lateral_accel],
             Chassis_static_lateral_load_transfer(obj, total_mass, lateral_accel))

ChassisStaticLongitudinal ==
    /\ obj.tag = "GenericChassis"
    /\ \E total_mass \in Masses, longitudinal_accel \in Args :
        Call("GenericChassis.static_longitudinal_load_transfer",
             [total_mass |-> total_mass, longitudinal_accel |-> longitudinal_accel],
             Chassis_static_longitudinal_load_transfer(obj, total_mass, longitudinal_accel))

GeometryStaticLateral ==
    /\ obj.tag = "GenericCarGeometry"
    /\ \E total_mass \in Masses, lateral_accel \in Args :
        Call("GenericCarGeometry.static_lateral_load_transfer",
             [total_mass |-> total_mass, lateral_accel |-> lateral_accel],
             Geometry_static_lateral_load_transfer(obj, total_mass, lateral_accel))

GeometryStaticLongitudinal ==
    /\ obj.tag = "GenericCarGeometry"
    /\ \E total_mass \in Masses, longitudinal_accel \in Args :
        Call("GenericCarGeometry.static_longitudinal_load_transfer",
             [total_mass |-> total_mass, longitudinal_accel |-> longitudinal_accel],
             Geometry_static_longitudinal_load_transfer(obj, total_mass, longitudinal_accel))

NewGenericTyreModel ==
    /\ obj = None
    /\ Construct(ExampleTyre, "GenericTyreModel.__init__",
              [lateral_force_func |-> "lat_func", longitudinal_force_func |-> "long_func",
               coupling_func |-> "ellipse_coupling"])

TyreLateralForce ==
    /\ obj.tag = "GenericTyreModel"
    /\ \E slip_angle \in Loads, normal_load \in Loads :
        Call("GenericTyreModel.lateral_force",
             [slip_angle |-> slip_angle, normal_load |-> normal_load],
             Tyre_lateral_force(obj, slip_angle, normal_load))

TyreLongitudinalForce ==
    /\ obj.tag = "GenericTyreModel"
    /\ \E slip_ratio \in Loads, normal_load \in Loads :
        Call("GenericTyreModel.longitudinal_force",
             [slip_ratio |-> slip_ratio, normal_load |-> normal_load],
             Tyre_longitudinal_force(obj, slip_ratio, normal_load))

TyreForceCoupling ==
    /\ obj.tag = "GenericTyreModel"
    /\ \E given_force \in Loads, normal_load \in Loads :
        Call("GenericTyreModel.force_coupling",
             [given_force |-> given_force, normal_load |-> normal_load],
             Tyre_force_coupling(obj, given_force, normal_load))

NewGenericAeroModel ==
    /\ obj = None
    /\ Construct(ExampleAero, "GenericAeroModel.__init__",
              [downforce_func |-> "negative_lift_func", drag_func |-> "drag_func"])

AeroDownforce ==
    /\ obj.tag = "GenericAeroModel"
    /\ \E speed \in Args :
        Call("GenericAeroModel.downforce", [speed |-> speed], Aero_downforce(obj, speed))

AeroDrag ==
    /\ obj.tag = "GenericAeroModel"
    /\ \E speed \in Args :
        Call("GenericAeroModel.drag", [speed |-> speed], Aero_drag(obj, speed))

NewCarModel ==
    /\ obj = None
    /\ \E mass \in Masses, geometry \in CarGeometries :
        Construct(CarModel(mass, ExampleTyre, ExampleAero, geometry), "CarModel.__init__",
                  [mass |-> mass, tyre_model |-> ExampleTyre, aero_model |-> ExampleAero,
                   geometry |-> geometry])

CarRequiredLateralForce ==
    /\ obj.tag = "CarModel"
    /\ \E speed \in Args, curvature \in Args :
        Call("CarModel.required_lateral_force", [speed |-> speed, curvature |-> curvature],
             Car_required_lateral_force(obj, speed, curvature))

CarBodySlipAngle ==
    /\ obj.tag = "CarModel"
    /\ \E lateral_velocity \in Args, longitudinal_velocity \in Args :
        Call("CarModel.body_slip_angle",
             [lateral_velocity |-> lateral_velocity, longitudinal_velocity |-> longitudinal_velocity],
             Car_body_slip_angle(obj, lateral_velocity, longitudinal_velocity))

CarFrontBodySlipAngle ==
    /\ obj.tag = "CarModel"
    /\ \E body_slip \in Args, curvature \in Args :
        Call("CarModel.front_body_slip_angle", [body_slip |-> body_slip, curvature |-> curvature],
             Car_front_body_slip_angle(obj, body_slip, curvature))

CarBackBodySlipAngle ==
    /\ obj.tag = "CarModel"
    /\ \E body_slip \in Args, curvature \in Args :
        Call("CarModel.back_body_slip_angle", [body_slip |-> body_slip, curvature |-> curvature],
             Car_back_body_slip_angle(obj, body_slip, curvature))

CarFrontSlipAngle ==
    /\ obj.tag = "CarModel"
    /\ \E front_body_slip \in Args, steering_angle \in Args :
        Call("CarModel.front_slip_angle",
             [front_body_slip |-> front_body_slip, steering_angle |-> steering_angle],
             Car_front_slip_angle(obj, front_body_slip, steering_angle))

CarBackSlipAngle ==
    /\ obj.tag = "CarModel"
    /\ \E back_body_slip \in Args :
        Call("CarModel.back_slip_angle", [back_body_slip |-> back_body_slip],
             Car_back_slip_angle(obj, back_body_slip))

CarSteeringAngle ==
    /\ obj.tag = "CarModel"
    /\ \E front_slip \in Args, curvature \in Args, back_slip \in Args :
        Call("CarModel.steering_angle",
             [front_slip |-> front_slip, curvature |-> curvature, back_slip |-> back_slip],
             Car_steering_angle(obj, front_slip, curvature, back_slip))

CarMaxSpeedOverCurvature ==
    /\ obj.tag = "CarModel"
    /\ \E curvature \in Args :
        Call("CarModel.max_speed_over_curvature", [curvature |-> curvature],
             Car_max_speed_over_curvature(obj, curvature))

CarSetProperty ==
    /\ obj.tag = "CarModel"
    /\ \E name \in CarProperties, value \in SwapValues :
        /\ obj' = Car_setattr(obj, name, value)
        /\ op' = "CarModel.__setattr__"
        /\ args' = [name |-> name, value |-> value]
        /\ ret' = Raise("AttributeError")

Next ==
    \/ NewGenericChassis
    \/ NewGenericCarGeometry
    \/ ChassisStaticLateral
    \/ ChassisStaticLongitudinal
    \/ GeometryStaticLateral
    \/ GeometryStaticLongitudinal
    \/ NewGenericTyreModel
    \/ TyreLateralForce
    \/ TyreLongitudinalForce
    \/ TyreForceCoupling
    \/ NewGenericAeroModel
    \/ AeroDownforce
    \/ AeroDrag
    \/ NewCarModel
    \/ CarRequiredLateralForce
    \/ CarBodySlipAngle
    \/ CarFrontBodySlipAngle
    \/ CarBackBodySlipAngle
    \/ CarFrontSlipAngle
    \/ CarBackSlipAngle
    \/ CarSteeringAngle
    \/ CarMaxSpeedOverCurvature
    \/ CarSetProperty

Spec == Init /\ [][Next]_vars

(* ------------------------------ properties ----------------------------- *)
LongitudinalOps ==
    {"GenericChassis.static_longitudinal_load_transfer",
     "GenericCarGeometry.static_longitudinal_load_transfer"}

TyreOps ==
    {"GenericTyreModel.lateral_force", "GenericTyreModel.longitudinal_force",
     "GenericTyreModel.force_coupling"}

\* the parameter ranges the specification requires of a geometry and of a car
ValidGeometry(g) ==
    /\ FLt(Zero, g.wheelbase)
    /\ FLt(Zero, g.track_width)
    /\ FLe(Zero, g.cog_height)
    /\ FLt(Zero, g.front_weight_dist) /\ FLt(g.front_weight_dist, One)

ValidChassis(c) ==
    /\ FLt(Zero, c.wheelbase)
    /\ FLt(Zero, c.front_track_width)
    /\ FLt(Zero, c.back_track_width)
    /\ FLe(Zero, c.cog_height)
    /\ FLt(Zero, c.front_weight_dist) /\ FLt(c.front_weight_dist, One)
    /\ FLt(Zero, c.mass)

ValidCar(c) == FLt(Zero, c.mass) /\ ValidGeometry(c.geometry)

\* C1 (stated for cars with valid parameters): steering_angle is the inverse of the forward slip-angle relations: when
\* the front and back slips passed to steering_angle are the ones the forward
\* relations give for some body slip, the call's curvature and a steering
\* angle d, steering_angle returns d.
C1_SteeringAngleIsInverse ==
    (op = "CarModel.steering_angle" /\ ValidCar(obj)) =>
        \A body_slip \in Args, d \in Args :
            ( /\ args.front_slip =
                    Car_front_slip_angle(obj,
                        Car_front_body_slip_angle(obj, body_slip, args.curvature), d)
              /\ args.back_slip =
                    Car_back_slip_angle(obj,
                        Car_back_body_slip_angle(obj, body_slip, args.curvature)) )
            => ret = d

\* C2: for positive total_mass, cog_height and wheelbase, in both geometry
\* classes (with valid parameters), forward acceleration gives front_transfer_N < 0 and
\* rear_transfer_N > 0, and braking gives the opposite signs.
C2_ForwardAccelUnloadsFront ==
    ( /\ op \in LongitudinalOps
      /\ obj.tag = "GenericChassis" => ValidChassis(obj)
      /\ obj.tag = "GenericCarGeometry" => ValidGeometry(obj)
      /\ FLt(Zero, args.total_mass)
      /\ FLt(Zero, obj.cog_height)
      /\ FLt(Zero, obj.wheelbase) )
    => /\ ret.tag = "dict"
       /\ FLt(Zero, args.longitudinal_accel) =>
              FLt(ret.front_transfer_N, Zero) /\ FLt(Zero, ret.rear_transfer_N)
       /\ FLt(args.longitudinal_accel, Zero) =>
              FLt(Zero, ret.front_transfer_N) /\ FLt(ret.rear_transfer_N, Zero)

\* C3: with wheelbase > 0, the front and rear transfers returned by
\* static_longitudinal_load_transfer of either geometry class sum to zero.
C3_LongitudinalTransfersSumToZero ==
    (op \in LongitudinalOps /\ FLt(Zero, obj.wheelbase))
    => /\ ret.tag = "dict"
       /\ FAdd(ret.front_transfer_N, ret.rear_transfer_N) = Zero

C3_Witness ==
    /\ op = "GenericChassis.static_longitudinal_load_transfer"
    /\ FLt(Zero, obj.wheelbase)
    /\ ret.tag = "dict"
    /\ ret.front_transfer_N # Zero
    /\ ret.rear_transfer_N # Zero

\* C4: no chassis geometry or car exists with a non-positive wheelbase, track
\* width or mass, or with front_weight_dist outside (0,1): construction with
\* such parameters fails.
C4_InvalidParametersRejected ==
    /\ obj.tag = "GenericChassis" =>
           /\ FLt(Zero, obj.wheelbase)
           /\ FLt(Zero, obj.front_track_width)
           /\ FLt(Zero, obj.back_track_width)
           /\ FLt(Zero, obj.mass)
           /\ FLt(Zero, obj.front_weight_dist) /\ FLt(obj.front_weight_dist, One)
    /\ obj.tag = "GenericCarGeometry" =>
           /\ FLt(Zero, obj.wheelbase)
           /\ FLt(Zero, obj.track_width)
           /\ FLt(Zero, obj.front_weight_dist) /\ FLt(obj.front_weight_dist, One)
    /\ obj.tag = "CarModel" => FLt(Zero, obj.mass)

\* C5: force_coupling follows the friction ellipse: for L > 0,
\* force_coupling(0, L) = L and force_coupling(L, L) = 0; for |given_force| >
\* normal_load the result is 0; the result is never negative.
C5_FrictionEllipse ==
    op = "GenericTyreModel.force_coupling" =>
        /\ IsFloat(ret)
        /\ FLe(Zero, ret)
        /\ (FLt(Zero, args.normal_load) /\ args.given_force = Zero) => ret = args.normal_load
        /\ (FLt(Zero, args.normal_load) /\ args.given_force = args.normal_load) => ret = Zero
        /\ FLt(args.normal_load, FAbs(args.given_force)) => ret = Zero

C5_Witness ==
    /\ op = "GenericTyreModel.force_coupling"
    /\ FLt(Zero, args.normal_load)
    /\ FLt(args.normal_load, FAbs(args.given_force))
    /\ ret = Zero

\* C6: for normal_load <= 0, lateral_force, longitudinal_force and
\* force_coupling all return 0 and none raises.
C6_LiftedWheelHasNoForce ==
    (op \in TyreOps /\ FLe(args.normal_load, Zero)) => ret = Zero

\* C7: max_speed_over_curvature(0) returns an explicit result (the
\* unbounded/top-speed sentinel), not an absent one.
C7_ZeroCurvatureReturnsSentinel ==
    (op = "CarModel.max_speed_over_curvature" /\ ValidCar(obj) /\ args.curvature = Zero)
    => ret.tag \in {"float", "unbounded"}

\* C8: for curvature > 0, max_speed_over_curvature returns a finite speed
\* v >= 0 at which the required lateral force is within the tolerance of the
\* front+rear lateral force available at the normal loads implied by v
\* (static axle load plus downforce share, friction ellipse with no
\* longitudinal force).
C8_ReturnsBalancedSpeed ==
    (op = "CarModel.max_speed_over_curvature" /\ ValidCar(obj) /\ FLt(Zero, args.curvature))
    => /\ IsFloat(ret)
       /\ FLe(Zero, ret)
       /\ LET g == Float(981, 100)
              tolerance == Float(1, 100)
              f == obj.geometry.front_weight_dist
              load == FAdd(FMul(obj.mass, g), Aero_downforce(obj.aero_model, ret))
              front_load == FMul(load, f)
              rear_load == FMul(load, FSub(One, f))
              available == FAdd(Tyre_force_coupling(obj.tyre_model, Zero, front_load),
                                Tyre_force_coupling(obj.tyre_model, Zero, rear_load))
              required == Car_required_lateral_force(obj, ret, args.curvature)
          IN  FLt(FAbs(FSub(required, available)), tolerance)

\* C9: static_lateral_load_transfer computes each axle from its own track
\* width: front_transfer_N * front_track_width = total_mass * lateral_accel *
\* cog_height * front_weight_dist and rear_transfer_N * back_track_width =
\* total_mass * lateral_accel * cog_height * (1 - front_weight_dist); another
\* (positive) back track width gives the same front_transfer_N and another
\* front track width the same rear_transfer_N.  GenericCarGeometry has one
\* track_width, which is the width of both axles.
C9_LateralAxlesIndependent ==
    LET mah == FMul(args.total_mass, FMul(args.lateral_accel, obj.cog_height))
    IN  /\ (op = "GenericChassis.static_lateral_load_transfer" /\ ret.tag = "dict") =>
            /\ FMul(ret.front_transfer_N, obj.front_track_width)
                   = FMul(mah, obj.front_weight_dist)
            /\ FMul(ret.rear_transfer_N, obj.back_track_width)
                   = FMul(mah, FSub(One, obj.front_weight_dist))
            /\ \A w \in Params \ {Zero} :
                /\ Chassis_static_lateral_load_transfer(
                       [obj EXCEPT !.back_track_width = w],
                       args.total_mass, args.lateral_accel).front_transfer_N
                     = ret.front_transfer_N
                /\ Chassis_static_lateral_load_transfer(
                       [obj EXCEPT !.front_track_width = w],
                       args.total_mass, args.lateral_accel).rear_transfer_N
                     = ret.rear_transfer_N
        /\ (op = "GenericCarGeometry.static_lateral_load_transfer" /\ ret.tag = "dict") =>
            /\ FMul(ret.front_transfer_N, obj.track_width)
                   = FMul(mah, obj.front_weight_dist)
            /\ FMul(ret.rear_transfer_N, obj.track_width)
                   = FMul(mah, FSub(One, obj.front_weight_dist))

C9_Witness ==
    /\ op = "GenericChassis.static_lateral_load_transfer"
    /\ ret.tag = "dict"
    /\ obj.front_track_width # obj.back_track_width
    /\ ret.front_transfer_N # Zero
    /\ ret.rear_transfer_N # Zero

\* C10: required_lateral_force(speed, curvature) = mass * speed^2 * curvature,
\* and it is 0 when the curvature is 0.
C10_RequiredLateralForce ==
    op = "CarModel.required_lateral_force" =>
        /\ ret = FMul(obj.mass, FMul(args.curvature, FMul(args.speed, args.speed)))
        /\ args.curvature = Zero => ret = Zero

C10_Witness ==
    /\ op = "CarModel.required_lateral_force"
    /\ args.curvature = Zero
    /\ args.speed # Zero
    /\ obj.mass # Zero
    /\ ret = Zero

\* C11: for mass > 0 and a fixed curvature > 0, required_lateral_force is
\* strictly increasing in speed over speeds >= 0: the result of a call at speed
\* v is above the result at every smaller speed >= 0 and below the result at
\* every larger speed.
C11_RequiredForceIncreasesWithSpeed ==
    ( /\ op = "CarModel.required_lateral_force"
      /\ FLt(Zero, obj.mass)
      /\ FLt(Zero, args.curvature)
      /\ FLe(Zero, args.speed) )
    => \A k \in 0..MaxLoad :
           LET v == Float(k, 2)
               other == Car_required_lateral_force(obj, v, args.curvature)
           IN  /\ FLt(v, args.speed) => FLt(other, ret)
               /\ FLt(args.speed, v) => FLt(ret, other)

C11_Witness ==
    /\ op = "CarModel.required_lateral_force"
    /\ FLt(Zero, obj.mass)
    /\ FLt(Zero, args.curvature)
    /\ FLt(Zero, args.speed)
    /\ FLt(Zero, ret)
    /\ FLt(ret, Car_required_lateral_force(obj, Float(MaxLoad, 2), args.curvature))

CarQueryOps ==
    {"CarModel.required_lateral_force", "CarModel.body_slip_angle",
     "CarModel.front_body_slip_angle", "CarModel.back_body_slip_angle",
     "CarModel.front_slip_angle", "CarModel.back_slip_angle",
     "CarModel.steering_angle", "CarModel.max_speed_over_curvature"}

\* the result of query o with arguments a on car c, as a function of c and a alone
CarQueryResult(c, o, a) ==
    CASE o = "CarModel.required_lateral_force" ->
            Car_required_lateral_force(c, a.speed, a.curvature)
      [] o = "CarModel.body_slip_angle" ->
            Car_body_slip_angle(c, a.lateral_velocity, a.longitudinal_velocity)
      [] o = "CarModel.front_body_slip_angle" ->
            Car_front_body_slip_angle(c, a.body_slip, a.curvature)
      [] o = "CarModel.back_body_slip_angle" ->
            Car_back_body_slip_angle(c, a.body_slip, a.curvature)
      [] o = "CarModel.front_slip_angle" ->
            Car_front_slip_angle(c, a.front_body_slip, a.steering_angle)
      [] o = "CarModel.back_slip_angle" ->
            Car_back_slip_angle(c, a.back_body_slip)
      [] o = "CarModel.steering_angle" ->
            Car_steering_angle(c, a.front_slip, a.curvature, a.back_slip)
      [] o = "CarModel.max_speed_over_curvature" ->
            Car_max_speed_over_curvature(c, a.curvature)

\* C12: a CarModel is immutable and stateless.  Construction stores exactly
\* the mass and sub-models given; every later step (a query or an attempted
\* assignment to a property) leaves mass, tyre_model, aero_model and geometry
\* as they are; a query's result is determined by the car and the arguments
\* alone, so repeating a call gives the same result whatever was called before.
C12_CarModelImmutableStateless ==
    [][ /\ op' = "CarModel.__init__" =>
            /\ obj'.mass = args'.mass
            /\ obj'.tyre_model = args'.tyre_model
            /\ obj'.aero_model = args'.aero_model
            /\ obj'.geometry = args'.geometry
        /\ obj.tag = "CarModel" =>
            /\ obj'.tag = "CarModel"
            /\ obj'.mass = obj.mass
            /\ obj'.tyre_model = obj.tyre_model
            /\ obj'.aero_model = obj.aero_model
            /\ obj'.geometry = obj.geometry
            /\ op' \in CarQueryOps => ret' = CarQueryResult(obj, op', args')
            /\ (op' = op /\ args' = args) => ret' = ret
      ]_vars

C12_Witness ==
    /\ op = "CarModel.__setattr__"
    /\ obj.tag = "CarModel"
    /\ args.name = "tyre_model"
    /\ args.value # obj.tyre_model
    /\ obj.tyre_model = ExampleTyre
    /\ ret = Raise("AttributeError")

====
